---- MODULE Spec2Model ----
(***************************************************************************)
(* Model of the Twitter-clone backend (backend/app/app.py, models.py,      *)
(* schemas.py, database.py).  The store is the five relational tables of   *)
(* models.py; every request handler of app.py is one operator computing    *)
(* the committed store and the HTTP response, and one action applying it.  *)
(***************************************************************************)
EXTENDS Integers, Sequences, FiniteSets, TLC

VARIABLES
    tweets, medias, likes, followers,   \* the tables of models.py (users below)
    seq,                                \* next serial primary key per table
    last,                               \* the request answered last
    prev,                               \* the request answered before it
    sessions                            \* requests in flight, one session each

vars == <<tweets, medias, likes, followers, seq, last, prev, sessions>>

(* ----------------------------- bounds --------------------------------- *)
\* Rows a serial primary key may hand out per table before the model stops
\* inserting into it.
MaxTweets == 2
MaxMedias == 2
MaxLikes == 3
MaxFollowers == 2
\* Longest tweet_media_ids list a request carries.
MaxIdList == 2
\* Requests that may be in flight at once, each with its own session.
MaxSessions == 3

(* --------------------------- value universe ---------------------------- *)
\* SQL NULL / Python None in an integer column (serial ids start at 1).
NULL == 0

\* The users table is provisioned outside app.py; no handler inserts or
\* deletes a User.  The two rows are the ones the tests provision.
users ==
    { [id |-> 1, name |-> "User1", api_key |-> "test-api-key1"],
      [id |-> 2, name |-> "User2", api_key |-> "test-api-key2"] }

\* api-key header absent: APIKeyHeader(auto_error=False) passes None.
NoHeader == "<None>"

ValidKeys == { u.api_key : u \in users }
Keys == ValidKeys \cup { "wrong-key", NoHeader }

UserIds == { u.id : u \in users }
\* Path parameters: every id a table can hold and one id past it.
TweetIdArgs == 1 .. (MaxTweets + 1)
MediaIdArgs == 1 .. (MaxMedias + 1)
UserIdArgs == 1 .. (Cardinality(users) + 1)

ContentTypes == { "image/jpeg", "image/png", "image/jpg", "text/plain" }
FileNames == { "image.png", "photo.jpg" }
Contents == { "hello" }

Store ==
    [tweets |-> tweets, medias |-> medias, likes |-> likes,
     followers |-> followers, seq |-> seq]

(* --------------------- exceptions and the envelope --------------------- *)
HTTPException(status_code, detail) ==
    [kind |-> "HTTPException", status_code |-> status_code, detail |-> detail]

\* current_user.id evaluated on the dict get_current_user returned.
AttributeError ==
    [kind |-> "AttributeError", status_code |-> NULL,
     detail |-> "'dict' object has no attribute 'id'"]

\* "except Exception as e: return {...}": the handler RETURNS the envelope,
\* so the framework serialises it as an ordinary 200 response whatever the
\* status_code of the exception was.
ErrorEnvelope(e) ==
    [status |-> 200, result |-> FALSE, error_type |-> "server_error",
     error_message |-> e]

(* ------------------------- authentication gate ------------------------- *)
\* select(User).filter(User.api_key == api_key).scalar_one_or_none();
\* api_key is unique, and a None header compares as IS NULL, matching no
\* provisioned user.  The HTTPException(403) is raised inside the try and
\* so comes back as the envelope dict, which the handler then receives as
\* current_user.
get_current_user(api_key) ==
    LET found == { u \in users : u.api_key = api_key }
    IN  IF found = {}
        THEN ErrorEnvelope(HTTPException(403, "Invalid API Key"))
        ELSE CHOOSE u \in found : TRUE

\* Whether current_user.id evaluates (a User row) or raises (the dict).
HasId(current_user) == "id" \in DOMAIN current_user

(* ------------------------------ history -------------------------------- *)
\* One entry per answered request: the request, the response, the committed
\* writes and the store the request found.
Entry(req, out) ==
    [req |-> req, resp |-> out.resp, commits |-> out.commits,
     before |-> Store]

NoRequest ==
    [req |-> [op |-> "none"], resp |-> [status |-> NULL], commits |-> <<>>,
     before |-> [tweets |-> {}, medias |-> {}, likes |-> {}, followers |-> {},
                 seq |-> [tweets |-> 1, medias |-> 1, likes |-> 1,
                          followers |-> 1]]]

\* A handler's outcome out: the store it committed (db), the response it
\* returned (resp) and the writes it committed, in order (commits).
Apply(req, out) ==
    /\ tweets' = out.db.tweets
    /\ medias' = out.db.medias
    /\ likes' = out.db.likes
    /\ followers' = out.db.followers
    /\ seq' = out.db.seq
    /\ last' = Entry(req, out)
    /\ UNCHANGED sessions

\* The request before the last is remembered where a property spans two
\* requests, and left alone elsewhere.
Shift == prev' = last
Forget == UNCHANGED prev

\* A session no request has used yet.
Idle == [pc |-> "idle"]

Slots == 1 .. MaxSessions

Init ==
    /\ tweets = {}
    /\ medias = {}
    /\ likes = {}
    /\ followers = {}
    /\ seq = [tweets |-> 1, medias |-> 1, likes |-> 1, followers |-> 1]
    /\ last = NoRequest
    /\ prev = NoRequest
    /\ sessions = [p \in Slots |-> Idle]

(* ---------------------------- Media upload ----------------------------- *)
\* Path(file.filename).suffix
Suffix(file_name) ==
    CASE file_name = "image.png" -> ".png"
      [] file_name = "photo.jpg" -> ".jpg"
      [] OTHER -> ""

\* A whitelist that forgot the image/jpg spelling.
AllowedContentTypesNoJpg == { "image/jpeg", "image/png" }

AllowedContentTypes == { "image/jpeg", "image/png", "image/jpg" }

\* POST /api/medias.  current_user is a parameter the body never reads.
create_media(db, file, current_user) ==
    IF file.content_type \notin AllowedContentTypes
    THEN [db |-> db, commits |-> <<>>,
          resp |-> ErrorEnvelope(HTTPException(400,
                     "Invalid file type. Only JPEG and PNG are allowed."))]
    ELSE LET id == db.seq.medias
             media == [id |-> id, data |-> file.data,
                       file_name |-> <<"uuid4", id, Suffix(file.filename)>>,
                       tweet_id |-> NULL]
         IN  [db |-> [db EXCEPT !.medias = @ \cup {media},
                                !.seq.medias = @ + 1],
              commits |-> <<[insert |-> "medias", id |-> id]>>,
              resp |-> [status |-> 200, result |-> TRUE, media_id |-> id]]

CreateMedia(key, content_type, filename) ==
    /\ seq.medias <= MaxMedias
    /\ LET file == [content_type |-> content_type, filename |-> filename,
                    data |-> "image content"]
       IN  Apply([op |-> "create_media", key |-> key, file |-> file],
                 create_media(Store, file, get_current_user(key)))

(* --------------------------- Media retrieval --------------------------- *)
\* GET /api/media/{id}; no authentication dependency.
get_media_by_id(db, id) ==
    LET found == { m \in db.medias : m.id = id }
    IN  IF found = {}
        THEN [db |-> db, commits |-> <<>>,
              resp |-> ErrorEnvelope(HTTPException(404, "Media not found"))]
        ELSE [db |-> db, commits |-> <<>>,
              resp |-> [status |-> 200, media_type |-> "image/png",
                        content |-> (CHOOSE m \in found : TRUE).data]]

GetMedia(id) ==
    Apply([op |-> "get_media_by_id", id |-> id], get_media_by_id(Store, id))

(* --------------------------- Tweet creation ---------------------------- *)
\* The "for media_id in tweet.tweet_media_ids" loop from position i on: a
\* found Media gets tweet_id set and is committed at once; the first id that
\* is not found rolls back (nothing is pending: every earlier attachment is
\* already committed) and raises, which ends the handler with the envelope.
RECURSIVE AttachMedia(_, _, _, _, _)
AttachMedia(db, media_ids, i, tweet_id, commits) ==
    IF i > Len(media_ids)
    THEN [db |-> db, commits |-> commits,
          resp |-> [status |-> 200, result |-> TRUE, tweet_id |-> tweet_id]]
    ELSE LET found == { m \in db.medias : m.id = media_ids[i] }
         IN  IF found # {}
             THEN LET result_media == CHOOSE m \in found : TRUE
                      attached == [result_media EXCEPT !.tweet_id = tweet_id]
                  IN  AttachMedia(
                        [db EXCEPT !.medias =
                                     (@ \ {result_media}) \cup {attached}],
                        media_ids, i + 1, tweet_id,
                        Append(commits, [attach |-> result_media.id,
                                         tweet_id |-> tweet_id]))
             ELSE [db |-> db, commits |-> commits,
                   resp |-> ErrorEnvelope(
                              HTTPException(404, "Media not found"))]

\* A loop that attaches the first listed Media and returns.
create_tweet_first_only(db, tweet, current_user) ==
    IF ~HasId(current_user)
    THEN [db |-> db, commits |-> <<>>, resp |-> ErrorEnvelope(AttributeError)]
    ELSE LET id == db.seq.tweets
             db_tweet == [id |-> id, content_text |-> tweet.tweet_data,
                          owner_id |-> current_user.id]
             db1 == [db EXCEPT !.tweets = @ \cup {db_tweet},
                               !.seq.tweets = @ + 1]
             c1 == <<[insert |-> "tweets", id |-> id]>>
             items == tweet.tweet_media_ids.items
         IN  AttachMedia(db1, IF items = <<>> THEN items ELSE <<items[1]>>,
                         1, id, c1)

\* POST /api/tweets.  tweet is a TweetCreate: tweet_data and the optional
\* tweet_media_ids, [is_none |-> TRUE] standing for None.
create_tweet(db, tweet, current_user) ==
    IF ~HasId(current_user)
    THEN [db |-> db, commits |-> <<>>, resp |-> ErrorEnvelope(AttributeError)]
    ELSE LET id == db.seq.tweets
             db_tweet == [id |-> id, content_text |-> tweet.tweet_data,
                          owner_id |-> current_user.id]
             db1 == [db EXCEPT !.tweets = @ \cup {db_tweet},
                               !.seq.tweets = @ + 1]
             c1 == <<[insert |-> "tweets", id |-> id]>>
         IN  IF tweet.tweet_media_ids.is_none
             THEN [db |-> db1, commits |-> c1,
                   resp |-> [status |-> 200, result |-> TRUE,
                             tweet_id |-> id]]
             ELSE AttachMedia(db1, tweet.tweet_media_ids.items, 1, id, c1)

None == [is_none |-> TRUE, items |-> <<>>]
List(items) == [is_none |-> FALSE, items |-> items]

\* Every list of at most MaxIdList ids over ids.
IdLists(ids) ==
    UNION { [1 .. n -> ids] : n \in 0 .. MaxIdList }

CreateTweet(key, tweet_data, tweet_media_ids) ==
    /\ seq.tweets <= MaxTweets
    /\ LET tweet == [tweet_data |-> tweet_data,
                     tweet_media_ids |-> tweet_media_ids]
       IN  Apply([op |-> "create_tweet", key |-> key, tweet |-> tweet],
                 create_tweet(Store, tweet, get_current_user(key)))

(* --------------------------- Tweet deletion ---------------------------- *)
\* (DeleteTweetRowCascadeMedia: a media relationship declared with
\* cascade="all, delete-orphan" like the like relationship.)
\* session.delete(tweet) + commit, by the relationships of models.Tweet:
\*   like  = relationship(..., cascade="all, delete-orphan"): the Tweet's Like
\*           rows are deleted with it;
\*   media = relationship("Media", ...) with the default cascade and
\*           passive_deletes unset: the unit of work de-associates the Tweet's
\*           Media rows, setting their tweet_id to NULL, and keeps the rows.
DeleteTweetRowCascadeMedia(db, id) ==
    [db EXCEPT
       !.tweets = { t \in @ : t.id # id },
       !.likes = { l \in @ : l.tweet_id # id },
       !.medias = { m \in @ : m.tweet_id # id }]

DeleteTweetRow(db, id) ==
    [db EXCEPT
       !.tweets = { t \in @ : t.id # id },
       !.likes = { l \in @ : l.tweet_id # id },
       !.medias = { IF m.tweet_id = id THEN [m EXCEPT !.tweet_id = NULL]
                    ELSE m : m \in @ }]

\* A deletion that never compares owner_id with the caller.
delete_by_id_any_caller(db, id, current_user) ==
    LET found == { t \in db.tweets : t.id = id }
    IN  IF found = {}
        THEN [db |-> db, commits |-> <<>>,
              resp |-> ErrorEnvelope(HTTPException(404, "Tweet not found"))]
        ELSE IF ~HasId(current_user)
        THEN [db |-> db, commits |-> <<>>,
              resp |-> ErrorEnvelope(AttributeError)]
        ELSE [db |-> DeleteTweetRow(db, id),
              commits |-> <<[delete |-> "tweets", id |-> id]>>,
              resp |-> [status |-> 200, result |-> TRUE]]

\* DELETE /api/tweets/{id}
delete_by_id(db, id, current_user) ==
    LET found == { t \in db.tweets : t.id = id }
    IN  IF found = {}
        THEN [db |-> db, commits |-> <<>>,
              resp |-> ErrorEnvelope(HTTPException(404, "Tweet not found"))]
        ELSE IF ~HasId(current_user)
        THEN [db |-> db, commits |-> <<>>,
              resp |-> ErrorEnvelope(AttributeError)]
        ELSE IF (CHOOSE t \in found : TRUE).owner_id = current_user.id
        THEN [db |-> DeleteTweetRow(db, id),
              commits |-> <<[delete |-> "tweets", id |-> id]>>,
              resp |-> [status |-> 200, result |-> TRUE]]
        ELSE [db |-> db, commits |-> <<>>,
              resp |-> ErrorEnvelope(HTTPException(403,
                         "You are not authorized to delete this tweet"))]

DeleteTweet(key, id) ==
    Apply([op |-> "delete_by_id", key |-> key, id |-> id],
          delete_by_id(Store, id, get_current_user(key)))

(* ---------------------------- Like / Unlike ---------------------------- *)
\* A Like that inserts only when the caller has no Like on the Tweet yet.
likes_tweets_unique(db, id, current_user) ==
    LET found == { t \in db.tweets : t.id = id }
    IN  IF found = {}
        THEN [db |-> db, commits |-> <<>>,
              resp |-> ErrorEnvelope(HTTPException(404, "Tweet not found"))]
        ELSE IF ~HasId(current_user)
        THEN [db |-> db, commits |-> <<>>,
              resp |-> ErrorEnvelope(AttributeError)]
        ELSE IF \E l \in db.likes :
                  l.user_id = current_user.id /\ l.tweet_id = id
        THEN [db |-> db, commits |-> <<>>,
              resp |-> [status |-> 200, result |-> TRUE]]
        ELSE LET like_tweet == [id |-> db.seq.likes,
                                user_id |-> current_user.id, tweet_id |-> id]
             IN  [db |-> [db EXCEPT !.likes = @ \cup {like_tweet},
                                    !.seq.likes = @ + 1],
                  commits |-> <<[insert |-> "likes", id |-> like_tweet.id]>>,
                  resp |-> [status |-> 200, result |-> TRUE]]

\* POST /api/tweets/{id}/likes
likes_tweets(db, id, current_user) ==
    LET found == { t \in db.tweets : t.id = id }
    IN  IF found = {}
        THEN [db |-> db, commits |-> <<>>,
              resp |-> ErrorEnvelope(HTTPException(404, "Tweet not found"))]
        ELSE IF ~HasId(current_user)
        THEN [db |-> db, commits |-> <<>>,
              resp |-> ErrorEnvelope(AttributeError)]
        ELSE LET like_tweet == [id |-> db.seq.likes,
                                user_id |-> current_user.id, tweet_id |-> id]
             IN  [db |-> [db EXCEPT !.likes = @ \cup {like_tweet},
                                    !.seq.likes = @ + 1],
                  commits |-> <<[insert |-> "likes", id |-> like_tweet.id]>>,
                  resp |-> [status |-> 200, result |-> TRUE]]

LikeTweet(key, id) ==
    /\ seq.likes <= MaxLikes
    /\ Apply([op |-> "likes_tweets", key |-> key, id |-> id],
             likes_tweets(Store, id, get_current_user(key)))

\* The rows scalars().first() may return: the query has no ORDER BY, so any
\* matching row can come first; {} when nothing matches (first() is None).
First(rows) == IF rows = {} THEN { {} } ELSE { {r} : r \in rows }

\* The Like rows the Unlike query selects for this caller and tweet.
MatchingLikes(db, id, current_user) ==
    IF HasId(current_user)
    THEN { l \in db.likes : l.user_id = current_user.id /\ l.tweet_id = id }
    ELSE {}

\* DELETE /api/tweets/{id}/likes; first is the outcome of scalars().first()
\* as a set of at most one row.
delete_likes_by_id(db, id, current_user, first) ==
    IF ~HasId(current_user)
    THEN [db |-> db, commits |-> <<>>, resp |-> ErrorEnvelope(AttributeError)]
    ELSE IF first = {}
    THEN [db |-> db, commits |-> <<>>,
          resp |-> ErrorEnvelope(HTTPException(404, "Like not found"))]
    ELSE [db |-> [db EXCEPT !.likes = @ \ first],
          commits |-> <<[delete |-> "likes",
                         id |-> (CHOOSE l \in first : TRUE).id]>>,
          resp |-> [status |-> 200, result |-> TRUE]]

UnlikeTweet(key, id) ==
    LET current_user == get_current_user(key)
    IN  \E first \in First(MatchingLikes(Store, id, current_user)) :
            Apply([op |-> "delete_likes_by_id", key |-> key, id |-> id],
                  delete_likes_by_id(Store, id, current_user, first))

(* --------------------------- Follow / Unfollow ------------------------- *)
\* POST /api/users/{id}/follow
follow_user_by_id(db, id, current_user) ==
    LET found == { u \in users : u.id = id }
    IN  IF found = {}
        THEN [db |-> db, commits |-> <<>>,
              resp |-> ErrorEnvelope(HTTPException(404, "User not found"))]
        ELSE IF ~HasId(current_user)
        THEN [db |-> db, commits |-> <<>>,
              resp |-> ErrorEnvelope(AttributeError)]
        ELSE LET subscription == [id |-> db.seq.followers,
                                  follower_id |-> current_user.id,
                                  following_id |-> id]
             IN  [db |-> [db EXCEPT !.followers = @ \cup {subscription},
                                    !.seq.followers = @ + 1],
                  commits |-> <<[insert |-> "followers",
                                 id |-> subscription.id]>>,
                  resp |-> [status |-> 200, result |-> TRUE]]

FollowUser(key, id) ==
    /\ seq.followers <= MaxFollowers
    /\ Apply([op |-> "follow_user_by_id", key |-> key, id |-> id],
             follow_user_by_id(Store, id, get_current_user(key)))

\* The Follower rows the Unfollow query selects for this caller and target.
MatchingFollowers(db, id, current_user) ==
    IF HasId(current_user)
    THEN { f \in db.followers :
             f.follower_id = current_user.id /\ f.following_id = id }
    ELSE {}

\* An Unfollow that answers without deleting the edge it found.
delete_follow_by_id_no_delete(db, id, current_user, first) ==
    IF ~HasId(current_user)
    THEN [db |-> db, commits |-> <<>>, resp |-> ErrorEnvelope(AttributeError)]
    ELSE IF first = {}
    THEN [db |-> db, commits |-> <<>>,
          resp |-> ErrorEnvelope(HTTPException(404, "Follower not found"))]
    ELSE [db |-> db, commits |-> <<>>,
          resp |-> [status |-> 200, result |-> TRUE]]

\* DELETE /api/users/{id}/follow
delete_follow_by_id(db, id, current_user, first) ==
    IF ~HasId(current_user)
    THEN [db |-> db, commits |-> <<>>, resp |-> ErrorEnvelope(AttributeError)]
    ELSE IF first = {}
    THEN [db |-> db, commits |-> <<>>,
          resp |-> ErrorEnvelope(HTTPException(404, "Follower not found"))]
    ELSE [db |-> [db EXCEPT !.followers = @ \ first],
          commits |-> <<[delete |-> "followers",
                         id |-> (CHOOSE f \in first : TRUE).id]>>,
          resp |-> [status |-> 200, result |-> TRUE]]

UnfollowUser(key, id) ==
    LET current_user == get_current_user(key)
    IN  \E first \in First(MatchingFollowers(Store, id, current_user)) :
            Apply([op |-> "delete_follow_by_id", key |-> key, id |-> id],
                  delete_follow_by_id(Store, id, current_user, first))

(* ------------------------------ queries -------------------------------- *)
\* scalars().all() of a query without ORDER BY, taken in primary-key order.
RECURSIVE All(_)
All(rows) ==
    IF rows = {} THEN <<>>
    ELSE LET r == CHOOSE x \in rows : \A y \in rows : x.id <= y.id
         IN  <<r>> \o All(rows \ {r})

\* f"/api/media/{media.id}"
MediaUrl(id) == <<"/api/media/", id>>

\* The User row a relationship (Tweet.owner, Like.user) loads.
UserById(id) == CHOOSE u \in users : u.id = id

(* ------------------------------ Tweet feed ----------------------------- *)
\* A like_list with one entry per liking user instead of one per Like row.
LikeListPerUser(db, tweet_id) ==
    LET rows == All({ u \in users :
                       \E l \in db.likes :
                         l.tweet_id = tweet_id /\ l.user_id = u.id })
    IN  [i \in 1 .. Len(rows) |->
           [user_id |-> rows[i].id, name |-> rows[i].name]]

\* The like_list comprehension of read_tweets.
LikeList(db, tweet_id) ==
    LET rows == All({ l \in db.likes : l.tweet_id = tweet_id })
    IN  [i \in 1 .. Len(rows) |->
           [user_id |-> rows[i].user_id,
            name |-> UserById(rows[i].user_id).name]]

\* The attachments comprehension of read_tweets.
Attachments(db, tweet_id) ==
    LET rows == All({ m \in db.medias : m.tweet_id = tweet_id })
    IN  [i \in 1 .. Len(rows) |-> MediaUrl(rows[i].id)]

\* GET /api/tweets.  current_user is a parameter the body never reads.
read_tweets(db, current_user) ==
    LET rows == All(db.tweets)
        tweet_list ==
          [i \in 1 .. Len(rows) |->
             [id |-> rows[i].id,
              content |-> rows[i].content_text,
              attachments |-> Attachments(db, rows[i].id),
              author |-> [id |-> UserById(rows[i].owner_id).id,
                          name |-> UserById(rows[i].owner_id).name],
              likes |-> LikeList(db, rows[i].id)]]
    IN  [db |-> db, commits |-> <<>>,
         resp |-> [status |-> 200, result |-> TRUE, tweets |-> tweet_list]]

ReadTweets(key) ==
    Apply([op |-> "read_tweets", key |-> key],
          read_tweets(Store, get_current_user(key)))

(* ----------------------------- User profile ---------------------------- *)
\* select(User).filter(User.id.in_(ids)) reduced to {"id", "name"} dicts.
UserList(ids) ==
    LET rows == All({ u \in users : u.id \in ids })
    IN  [i \in 1 .. Len(rows) |-> [id |-> rows[i].id, name |-> rows[i].name]]

\* A user_dict whose lists hold one entry per Follower edge.
UserDictPerEdge(db, user) ==
    LET to == All({ e \in db.followers : e.following_id = user.id })
        from == All({ e \in db.followers : e.follower_id = user.id })
    IN  [id |-> user.id, name |-> user.name,
         followers |->
           [i \in 1 .. Len(to) |->
              [id |-> to[i].follower_id,
               name |-> UserById(to[i].follower_id).name]],
         following |->
           [i \in 1 .. Len(from) |->
              [id |-> from[i].following_id,
               name |-> UserById(from[i].following_id).name]]]

\* The user_dict both profile handlers build for the User with this id.
UserDict(db, user) ==
    LET follower_ids == { f.follower_id :
                            f \in { e \in db.followers :
                                      e.following_id = user.id } }
        following_ids == { f.following_id :
                             f \in { e \in db.followers :
                                       e.follower_id = user.id } }
    IN  [id |-> user.id, name |-> user.name,
         followers |-> UserList(follower_ids),
         following |-> UserList(following_ids)]

\* GET /api/users/me
read_user(db, current_user) ==
    IF ~HasId(current_user)
    THEN [db |-> db, commits |-> <<>>, resp |-> ErrorEnvelope(AttributeError)]
    ELSE [db |-> db, commits |-> <<>>,
          resp |-> [status |-> 200, result |-> TRUE,
                    user |-> UserDict(db, UserById(current_user.id))]]

ReadUser(key) ==
    Apply([op |-> "read_user", key |-> key],
          read_user(Store, get_current_user(key)))

\* GET /api/users/{id}.  current_user is a parameter the body never reads.
read_user_by_id(db, id, current_user) ==
    LET found == { u \in users : u.id = id }
    IN  IF found = {}
        THEN [db |-> db, commits |-> <<>>,
              resp |-> ErrorEnvelope(HTTPException(404, "User not found"))]
        ELSE [db |-> db, commits |-> <<>>,
              resp |-> [status |-> 200, result |-> TRUE,
                        user |-> UserDict(db, CHOOSE u \in found : TRUE)]]

ReadUserById(key, id) ==
    Apply([op |-> "read_user_by_id", key |-> key, id |-> id],
          read_user_by_id(Store, id, get_current_user(key)))

\* The response is a result:true body.
Ok(resp) == "result" \in DOMAIN resp /\ resp.result = TRUE

(* ------------------------ requests in flight --------------------------- *)
\* Every request runs in a session of its own (get_async_session) against
\* the shared store.  A handler gives up control at each await: Like, Unlike
\* and Tweet deletion await their SELECT first and their commit second, and
\* other requests' steps may run in between.  The steps below are the two
\* halves of those handlers; the store applies each statement atomically.

\* A slot is taken in order, whichever request takes it.
Free(p) ==
    /\ sessions[p].pc = "idle"
    /\ IF p = 1 THEN TRUE ELSE sessions[p - 1].pc # "idle"

InFlight(p, op, pc) ==
    /\ sessions[p].pc = pc
    /\ sessions[p].op = op

\* The request was answered without a write.
Answered(op, key, id, resp) ==
    [pc |-> "done", op |-> op, key |-> key, id |-> id, resp |-> resp,
     rowcount |-> 0]

\* The store after a committed write of a request in flight.
Commit(db) ==
    /\ tweets' = db.tweets
    /\ medias' = db.medias
    /\ likes' = db.likes
    /\ followers' = db.followers
    /\ seq' = db.seq
    /\ UNCHANGED <<last, prev>>

ReadOnly == UNCHANGED <<tweets, medias, likes, followers, seq, last, prev>>

\* An INSERT the database rejects.
IntegrityError ==
    [kind |-> "IntegrityError", status_code |-> NULL,
     detail |-> "violates foreign key constraint"]

\* A likes.tweet_id column declared without its ForeignKey.
ForeignKeyNotEnforced(db, tweet_id) == TRUE

\* tweet_id = Column(Integer, ForeignKey('tweets.id', ondelete="CASCADE")):
\* the database accepts a Like row only while its Tweet row exists.
ForeignKeyHolds(db, tweet_id) == \E t \in db.tweets : t.id = tweet_id

\* Like, up to the await of the SELECT: the existence check.
LikeSelect(p, key, id) ==
    /\ Free(p)
    /\ seq.likes <= MaxLikes
    /\ LET current_user == get_current_user(key)
           found == { t \in tweets : t.id = id }
       IN  sessions' =
             [sessions EXCEPT ![p] =
                IF found = {} \/ ~HasId(current_user)
                THEN Answered("likes_tweets", key, id,
                              likes_tweets(Store, id, current_user).resp)
                ELSE [pc |-> "checked", op |-> "likes_tweets",
                      key |-> key, id |-> id]]
    /\ ReadOnly

\* Like, from session.add to the await of the commit: the INSERT, which the
\* foreign key rejects when the Tweet is gone by now (the serial id is
\* consumed all the same); the IntegrityError ends in the envelope.
LikeCommit(p) ==
    /\ InFlight(p, "likes_tweets", "checked")
    /\ LET s == sessions[p]
           like_tweet == [id |-> seq.likes,
                          user_id |-> get_current_user(s.key).id,
                          tweet_id |-> s.id]
           out == IF ForeignKeyHolds(Store, s.id)
                  THEN [db |-> [Store EXCEPT !.likes = @ \cup {like_tweet},
                                             !.seq.likes = @ + 1],
                        resp |-> [status |-> 200, result |-> TRUE]]
                  ELSE [db |-> [Store EXCEPT !.seq.likes = @ + 1],
                        resp |-> ErrorEnvelope(IntegrityError)]
       IN  /\ Commit(out.db)
           /\ sessions' =
                [sessions EXCEPT ![p] =
                   [pc |-> "done", op |-> s.op, key |-> s.key, id |-> s.id,
                    resp |-> out.resp,
                    rowcount |-> IF Ok(out.resp) THEN 1 ELSE 0]]

\* Unlike, up to the await of the SELECT: first() of the caller's Like rows.
UnlikeSelect(p, key, id) ==
    /\ Free(p)
    /\ LET current_user == get_current_user(key)
       IN  \E first \in First(MatchingLikes(Store, id, current_user)) :
             sessions' =
               [sessions EXCEPT ![p] =
                  IF first = {}
                  THEN Answered("delete_likes_by_id", key, id,
                                delete_likes_by_id(Store, id, current_user,
                                                   first).resp)
                  ELSE [pc |-> "selected", op |-> "delete_likes_by_id",
                        key |-> key, id |-> id, first |-> first]]
    /\ ReadOnly

\* Unlike, from session.delete to the await of the commit: DELETE FROM likes
\* WHERE id = <the selected row's id>.  rowcount is the number of rows the
\* statement matched: 0 when another request deleted the row meanwhile.  The
\* mapper has no version_id_col, so a DELETE that matches fewer rows than
\* expected only emits a warning, and the handler returns result:true.
UnlikeCommit(p) ==
    /\ InFlight(p, "delete_likes_by_id", "selected")
    /\ LET s == sessions[p]
           out == delete_likes_by_id(Store, s.id, get_current_user(s.key),
                                     s.first)
       IN  /\ Commit(out.db)
           /\ sessions' =
                [sessions EXCEPT ![p] =
                   [pc |-> "done", op |-> s.op, key |-> s.key, id |-> s.id,
                    resp |-> out.resp,
                    rowcount |-> Cardinality(s.first \cap likes)]]

\* Tweet deletion, up to the await of the SELECT and the owner check that
\* follows it.
DeleteSelect(p, key, id) ==
    /\ Free(p)
    /\ LET out == delete_by_id(Store, id, get_current_user(key))
       IN  sessions' =
             [sessions EXCEPT ![p] =
                IF ~Ok(out.resp)
                THEN Answered("delete_by_id", key, id, out.resp)
                ELSE [pc |-> "owned", op |-> "delete_by_id",
                      key |-> key, id |-> id]]
    /\ ReadOnly

\* Tweet deletion, session.delete and commit: the Tweet row goes, and with it
\* every Like row on it, those the ORM loaded and, by ON DELETE CASCADE,
\* those committed since.  A Tweet another request deleted meanwhile matches
\* no row, which again only warns.
DeleteCommit(p) ==
    /\ InFlight(p, "delete_by_id", "owned")
    /\ LET s == sessions[p]
       IN  /\ Commit(DeleteTweetRow(Store, s.id))
           /\ sessions' =
                [sessions EXCEPT ![p] =
                   [pc |-> "done", op |-> s.op, key |-> s.key, id |-> s.id,
                    resp |-> [status |-> 200, result |-> TRUE],
                    rowcount |-> Cardinality({ t \in tweets : t.id = s.id })]]

(* --------------------------- specifications ---------------------------- *)
TweetBodies(id_lists) ==
    {None} \cup { List(l) : l \in id_lists }

\* Media upload, attachment at Tweet creation, retrieval and Tweet deletion,
\* by the provisioned users.
NextMedia ==
    \/ \E k \in ValidKeys, c \in Contents :
         \E ids \in TweetBodies(IdLists(MediaIdArgs)) :
           CreateTweet(k, c, ids) /\ Forget
    \/ \E k \in ValidKeys, ct \in ContentTypes, fn \in FileNames :
         CreateMedia(k, ct, fn) /\ Forget
    \/ \E id \in MediaIdArgs : GetMedia(id) /\ Forget
    \/ \E k \in ValidKeys, id \in TweetIdArgs : DeleteTweet(k, id) /\ Forget

SpecMedia == Init /\ [][NextMedia]_vars

\* Likes, unlikes and Tweet deletion over Tweets without media, by the
\* provisioned users, remembering the last two requests.
NextLikes ==
    \/ \E k \in ValidKeys, c \in Contents :
         CreateTweet(k, c, None) /\ Shift
    \/ \E k \in ValidKeys, id \in TweetIdArgs : LikeTweet(k, id) /\ Shift
    \/ \E k \in ValidKeys, id \in TweetIdArgs : UnlikeTweet(k, id) /\ Shift
    \/ \E k \in ValidKeys, id \in TweetIdArgs : DeleteTweet(k, id) /\ Shift

SpecLikes == Init /\ [][NextLikes]_vars

\* Follows and unfollows by the provisioned users, remembering the last
\* two requests.
NextFollow ==
    \/ \E k \in ValidKeys, id \in UserIdArgs : FollowUser(k, id) /\ Shift
    \/ \E k \in ValidKeys, id \in UserIdArgs : UnfollowUser(k, id) /\ Shift

SpecFollow == Init /\ [][NextFollow]_vars

\* The feed over Tweets with media and likes.
NextFeed ==
    \/ \E k \in ValidKeys, c \in Contents :
         \E ids \in TweetBodies(IdLists(MediaIdArgs)) :
           CreateTweet(k, c, ids) /\ Forget
    \/ \E k \in ValidKeys, fn \in FileNames :
         CreateMedia(k, "image/png", fn) /\ Forget
    \/ \E k \in ValidKeys, id \in TweetIdArgs : LikeTweet(k, id) /\ Forget
    \/ \E k \in ValidKeys, id \in TweetIdArgs : DeleteTweet(k, id) /\ Forget
    \/ \E k \in ValidKeys : ReadTweets(k) /\ Forget

SpecFeed == Init /\ [][NextFeed]_vars

\* Every endpoint behind the api-key header, called with the key of User 1,
\* with a key no User has and without the header.
AuthKeys == { "test-api-key1", "wrong-key", NoHeader }

NextAuth ==
    \/ \E k \in AuthKeys, c \in Contents :
         \E ids \in TweetBodies({<<1>>}) : CreateTweet(k, c, ids) /\ Forget
    \/ \E k \in AuthKeys, ct \in {"image/png", "text/plain"} :
         CreateMedia(k, ct, "image.png") /\ Forget
    \/ \E k \in AuthKeys : DeleteTweet(k, 1) /\ Forget
    \/ \E k \in AuthKeys : LikeTweet(k, 1) /\ Forget
    \/ \E k \in AuthKeys : UnlikeTweet(k, 1) /\ Forget
    \/ \E k \in AuthKeys : FollowUser(k, 2) /\ Forget
    \/ \E k \in AuthKeys : UnfollowUser(k, 2) /\ Forget
    \/ \E k \in AuthKeys : ReadTweets(k) /\ Forget
    \/ \E k \in AuthKeys : ReadUser(k) /\ Forget
    \/ \E k \in AuthKeys : ReadUserById(k, 2) /\ Forget

SpecAuth == Init /\ [][NextAuth]_vars

\* Tweet creation, and Like, Unlike and Tweet deletion in flight together,
\* by the provisioned users, on the ids Tweets can get (a request may name a
\* Tweet before it is created and after it is deleted).
NextRace ==
    \/ \E k \in ValidKeys, c \in Contents :
         CreateTweet(k, c, None) /\ Forget
    \/ \E p \in Slots, k \in ValidKeys, id \in 1 .. MaxTweets :
         LikeSelect(p, k, id)
    \/ \E p \in Slots : LikeCommit(p)
    \/ \E p \in Slots, k \in ValidKeys, id \in 1 .. MaxTweets :
         UnlikeSelect(p, k, id)
    \/ \E p \in Slots : UnlikeCommit(p)
    \/ \E p \in Slots, k \in ValidKeys, id \in 1 .. MaxTweets :
         DeleteSelect(p, k, id)
    \/ \E p \in Slots : DeleteCommit(p)

SpecRace == Init /\ [][NextRace]_vars

\* Follows, unfollows and both profile reads by the provisioned users,
\* remembering the last two requests.
NextProfile ==
    \/ \E k \in ValidKeys, id \in UserIdArgs : FollowUser(k, id) /\ Shift
    \/ \E k \in ValidKeys, id \in UserIdArgs : UnfollowUser(k, id) /\ Shift
    \/ \E k \in ValidKeys : ReadUser(k) /\ Shift
    \/ \E k \in ValidKeys, id \in UserIdArgs : ReadUserById(k, id) /\ Shift

SpecProfile == Init /\ [][NextProfile]_vars

(* ------------------------------ properties ----------------------------- *)
Range(f) == { f[i] : i \in DOMAIN f }

\* The last request was a Tweet creation carrying a media-id list, sent with
\* a key that resolves to a User.
LastCreatedTweetWithList ==
    /\ last.req.op = "create_tweet"
    /\ last.req.key \in ValidKeys
    /\ ~last.req.tweet.tweet_media_ids.is_none

LastIds == last.req.tweet.tweet_media_ids.items
LastNewTweetId == last.before.seq.tweets
MediaIdsOf(db) == { m.id : m \in db.medias }

\* The media ids the handler attached, in the order it committed them.
AttachOrder(commits) ==
    LET at == SelectSeq(commits, LAMBDA c : "attach" \in DOMAIN c)
    IN  [i \in 1 .. Len(at) |-> at[i].attach]

\* C2 (as claimed): a Tweet creation whose media-id list holds an id matching
\* no Media row reports failure, leaves the new Tweet persisted, and leaves
\* none of the listed Media rows attached to it, wherever the invalid id
\* stands in the list.
C2_InvalidMediaIdAttachesNothing ==
    (LastCreatedTweetWithList
       /\ \E i \in DOMAIN LastIds : LastIds[i] \notin MediaIdsOf(last.before))
    => /\ ~Ok(last.resp)
       /\ \E t \in tweets : t.id = LastNewTweetId
       /\ \A m \in medias :
            m.id \in Range(LastIds) => m.tweet_id # LastNewTweetId

\* C6 (as claimed): GET /api/media/{id} with an id matching no Media row
\* fails with NotFound and the response carries HTTP status 404.
C6_UnknownMediaIs404 ==
    (last.req.op = "get_media_by_id"
       /\ last.req.id \notin MediaIdsOf(last.before))
    => /\ "content" \notin DOMAIN last.resp
       /\ last.resp.status = 404

\* C7: an upload with content type image/jpeg, image/png or image/jpg creates
\* exactly one new Media row, with tweet_id unset, and returns its id; an
\* upload with any other content type is rejected and creates no Media row.
C7_UploadAcceptsExactlyImageTypes ==
    last.req.op = "create_media" =>
      IF last.req.file.content_type \in {"image/jpeg", "image/png", "image/jpg"}
      THEN /\ Ok(last.resp)
           /\ last.resp.media_id \notin MediaIdsOf(last.before)
           /\ \E m \in medias :
                /\ m.id = last.resp.media_id
                /\ m.tweet_id = NULL
                /\ medias = last.before.medias \cup {m}
           /\ Cardinality(medias) = Cardinality(last.before.medias) + 1
      ELSE /\ ~Ok(last.resp)
           /\ medias = last.before.medias

\* C7 witness: an image/jpg upload was accepted into a store that already
\* held a Media row.
C7_Witness ==
    /\ last.req.op = "create_media"
    /\ last.req.file.content_type = "image/jpg"
    /\ Ok(last.resp)
    /\ Cardinality(medias) = 2

\* The last request created a Tweet with a list of ids that all match Media
\* rows.
LastCreatedTweetAllValid ==
    /\ LastCreatedTweetWithList
    /\ Range(LastIds) \subseteq MediaIdsOf(last.before)

\* C8 (as claimed): creating a Tweet with a list of N ids that all match
\* Media rows succeeds, returns the new Tweet's id, and leaves exactly N
\* Media rows with tweet_id equal to it, attached in the order supplied.
C8_ExactlyNRowsAttached ==
    LastCreatedTweetAllValid
    => /\ Ok(last.resp)
       /\ last.resp.tweet_id = LastNewTweetId
       /\ Cardinality({ m \in medias : m.tweet_id = LastNewTweetId })
            = Len(LastIds)
       /\ AttachOrder(last.commits) = LastIds

\* C8 (amended): creating a Tweet with a list of ids that all match Media
\* rows succeeds, returns the new Tweet's id, and leaves exactly the listed
\* Media rows with tweet_id equal to it (N rows when the N ids are pairwise
\* distinct, one row per distinct id otherwise), attached in the order
\* supplied.
C8_ListedRowsAttachedInOrder ==
    LastCreatedTweetAllValid
    => /\ Ok(last.resp)
       /\ last.resp.tweet_id = LastNewTweetId
       /\ \E t \in tweets : t.id = LastNewTweetId
       /\ { m.id : m \in { x \in medias : x.tweet_id = LastNewTweetId } }
            = Range(LastIds)
       /\ Cardinality({ m \in medias : m.tweet_id = LastNewTweetId })
            = Cardinality(Range(LastIds))
       /\ AttachOrder(last.commits) = LastIds

\* C8 witness: a Tweet was created with two distinct valid ids, the larger
\* id first.
C8_Witness ==
    /\ LastCreatedTweetAllValid
    /\ LastIds = <<2, 1>>
    /\ Ok(last.resp)

\* The last request was a Tweet deletion that answered result:true.
LastDeletedTweet ==
    /\ last.req.op = "delete_by_id"
    /\ Ok(last.resp)

\* C9 (as claimed): a successful Tweet deletion removes or modifies no Media
\* row; the rows that referenced the Tweet keep their tweet_id.
C9_DeletionLeavesMediaUntouched ==
    LastDeletedTweet => medias = last.before.medias

\* C9 (amended): a successful Tweet deletion removes no Media row: every
\* Media row still exists with its id, data and file name and stays
\* retrievable by its own id; the rows whose tweet_id equalled the deleted
\* Tweet's id have tweet_id reset to unset, every other row is unchanged.
C9_DeletionDetachesMedia ==
    LastDeletedTweet
    => /\ Cardinality(medias) = Cardinality(last.before.medias)
       /\ \A b \in last.before.medias :
            /\ \E m \in medias :
                 /\ m.id = b.id /\ m.data = b.data
                 /\ m.file_name = b.file_name
                 /\ m.tweet_id = IF b.tweet_id = last.req.id THEN NULL
                                 ELSE b.tweet_id
            /\ LET r == get_media_by_id(Store, b.id).resp
               IN  /\ r.status = 200
                   /\ "content" \in DOMAIN r
                   /\ r.content = b.data

\* C9 witness: the deleted Tweet had a Media row attached.
C9_Witness ==
    /\ LastDeletedTweet
    /\ \E b \in last.before.medias : b.tweet_id = last.req.id

\* The User a request's api-key header names (the key is a provisioned one).
Caller(entry) == CHOOSE u \in users : u.api_key = entry.req.key

\* C3: for an existing Tweet T, a delete request by a user other than T's
\* owner fails and leaves the Tweet and every Like row unchanged; a delete
\* request by the owner succeeds and afterwards neither T nor any Like row
\* with tweet_id = T exists.
C3_OnlyOwnerDeletesTweetAndItsLikes ==
    (/\ last.req.op = "delete_by_id"
     /\ last.req.key \in ValidKeys
     /\ \E t \in last.before.tweets : t.id = last.req.id)
    => LET T == CHOOSE t \in last.before.tweets : t.id = last.req.id
       IN  IF T.owner_id # Caller(last).id
           THEN /\ ~Ok(last.resp)
                /\ tweets = last.before.tweets
                /\ likes = last.before.likes
           ELSE /\ Ok(last.resp)
                /\ \A t \in tweets : t.id # T.id
                /\ \A l \in likes : l.tweet_id # T.id

\* C3 witness: the owner deleted a liked Tweet right after another user's
\* delete request for it was refused.
C3_Witness ==
    /\ last.req.op = "delete_by_id" /\ Ok(last.resp)
    /\ \E l \in last.before.likes : l.tweet_id = last.req.id
    /\ prev.req.op = "delete_by_id" /\ ~Ok(prev.resp)
    /\ prev.req.id = last.req.id
    /\ prev.req.key \in ValidKeys /\ prev.req.key # last.req.key
    /\ last.before = prev.before

IsLike(entry) ==
    /\ entry.req.op = "likes_tweets"
    /\ entry.req.key \in ValidKeys

IsUnlike(entry) ==
    /\ entry.req.op = "delete_likes_by_id"
    /\ entry.req.key \in ValidKeys

\* The Like rows of db by user u on tweet t.
LikesBy(db, u, t) == { l \in db.likes : l.user_id = u /\ l.tweet_id = t }

\* C4: a Like on an existing Tweet inserts one row whatever rows exist, so
\* two successive Likes by U on T add two rows (U, T); a successful Unlike by
\* U on T removes exactly one row (U, T) and leaves every other Like row
\* unchanged; an Unlike with no row (U, T) fails and changes nothing.
C4_LikeInsertsUnlikeRemovesOne ==
    /\ (/\ IsLike(prev) /\ Ok(prev.resp)
        /\ IsLike(last) /\ Ok(last.resp)
        /\ prev.req.key = last.req.key /\ prev.req.id = last.req.id)
       => \E a, b \in LikesBy(Store, Caller(last).id, last.req.id) :
            /\ a # b
            /\ {a.id, b.id} \cap { l.id : l \in prev.before.likes } = {}
            /\ likes = prev.before.likes \cup {a, b}
            /\ Cardinality(likes) = Cardinality(prev.before.likes) + 2
    /\ (IsLike(last) /\ \E t \in last.before.tweets : t.id = last.req.id)
       => /\ Ok(last.resp)
          /\ Cardinality(LikesBy(Store, Caller(last).id, last.req.id))
               = Cardinality(LikesBy(last.before, Caller(last).id,
                                     last.req.id)) + 1
    /\ (IsUnlike(last) /\ Ok(last.resp))
       => \E r \in LikesBy(last.before, Caller(last).id, last.req.id) :
            /\ likes = last.before.likes \ {r}
            /\ Cardinality(likes) = Cardinality(last.before.likes) - 1
    /\ (IsUnlike(last)
          /\ LikesBy(last.before, Caller(last).id, last.req.id) = {})
       => /\ ~Ok(last.resp)
          /\ Store = last.before

\* C4 witness: U liked T twice in a row and then unliked it once; one of the
\* rows (U, T) is left.
C4_Witness ==
    /\ IsUnlike(last) /\ Ok(last.resp)
    /\ IsLike(prev) /\ Ok(prev.resp)
    /\ prev.req.key = last.req.key /\ prev.req.id = last.req.id
    /\ Cardinality(LikesBy(prev.before, Caller(last).id, last.req.id)) = 1
    /\ Cardinality(LikesBy(last.before, Caller(last).id, last.req.id)) = 2
    /\ Cardinality(LikesBy(Store, Caller(last).id, last.req.id)) = 1

\* The Follower edges of db between users a and b, in either direction.
EdgesBetween(db, a, b) ==
    { f \in db.followers :
        \/ (f.follower_id = a /\ f.following_id = b)
        \/ (f.follower_id = b /\ f.following_id = a) }

\* A followed B with no edge between them, then unfollowed B, both
\* successfully.
FollowedThenUnfollowed ==
    /\ prev.req.op = "follow_user_by_id" /\ Ok(prev.resp)
    /\ last.req.op = "delete_follow_by_id" /\ Ok(last.resp)
    /\ prev.req.key = last.req.key /\ prev.req.id = last.req.id
    /\ EdgesBetween(prev.before, Caller(prev).id, prev.req.id) = {}

\* C5: for users A and B with no Follower edge between them, after A follows
\* B and then unfollows B, both successfully, no Follower edge exists between
\* A and B and every other Follower edge is unchanged.
C5_FollowThenUnfollowLeavesNoEdge ==
    FollowedThenUnfollowed
    => /\ EdgesBetween(Store, Caller(last).id, last.req.id) = {}
       /\ followers \ EdgesBetween(Store, Caller(last).id, last.req.id)
            = prev.before.followers

\* C5 witness: the follow and unfollow happened between two different users
\* while another edge existed.
C5_Witness ==
    /\ FollowedThenUnfollowed
    /\ Caller(last).id # last.req.id
    /\ prev.before.followers # {}

\* The rows of the four tables a handler can write.
Rows(db) == <<db.tweets, db.medias, db.likes, db.followers>>

\* C1 (as claimed): a request to an endpoint that requires the api-key
\* header whose header is absent or equals no User's api_key never receives a
\* result:true body and never adds, changes or removes a row of the store.
C1_BadKeyIsRejected ==
    (/\ last.req.op \in
          { "create_tweet", "create_media", "delete_by_id", "likes_tweets",
            "delete_likes_by_id", "follow_user_by_id", "delete_follow_by_id",
            "read_tweets", "read_user", "read_user_by_id" }
     /\ \A u \in users : u.api_key # last.req.key)
    => /\ ~Ok(last.resp)
       /\ Rows(Store) = Rows(last.before)

\* Positions of feed entries with a given Tweet id.
FeedEntries(feed, tweet_id) ==
    { i \in DOMAIN feed : feed[i].id = tweet_id }

\* C10: GET /api/tweets with a valid key returns one entry for every Tweet of
\* the store and no others; an entry's author is the Tweet's owner, its
\* attachments are exactly one URL /api/media/{m} per Media row m whose
\* tweet_id is the Tweet's id, and its likes hold one entry per Like row on
\* the Tweet, duplicates included; a Tweet without media or likes has empty
\* attachments and likes.
C10_FeedListsEveryTweet ==
    (last.req.op = "read_tweets" /\ last.req.key \in ValidKeys)
    => /\ Ok(last.resp)
       /\ LET feed == last.resp.tweets
          IN  /\ \A t \in tweets :
                   Cardinality(FeedEntries(feed, t.id)) = 1
              /\ Len(feed) = Cardinality(tweets)
              /\ \A i \in DOMAIN feed :
                   \E t \in tweets :
                     /\ feed[i].id = t.id
                     /\ feed[i].content = t.content_text
                     /\ feed[i].author.id = t.owner_id
                     /\ \E u \in users :
                          u.id = t.owner_id /\ feed[i].author.name = u.name
                     /\ Range(feed[i].attachments)
                          = { <<"/api/media/", m.id>> :
                                m \in { x \in medias : x.tweet_id = t.id } }
                     /\ Len(feed[i].attachments)
                          = Cardinality({ x \in medias : x.tweet_id = t.id })
                     /\ Len(feed[i].likes)
                          = Cardinality({ l \in likes : l.tweet_id = t.id })
                     /\ \A u \in users :
                          Cardinality({ j \in DOMAIN feed[i].likes :
                                          /\ feed[i].likes[j].user_id = u.id
                                          /\ feed[i].likes[j].name = u.name })
                            = Cardinality(LikesBy(Store, u.id, t.id))

\* C10 witness: the feed was read while the store held a Tweet with an
\* attached Media row and two Likes of one user, and a second Tweet with
\* neither.
C10_Witness ==
    /\ last.req.op = "read_tweets" /\ last.req.key \in ValidKeys
    /\ \E t1, t2 \in tweets :
         /\ t1 # t2
         /\ \E m \in medias : m.tweet_id = t1.id
         /\ \E u \in users : Cardinality(LikesBy(Store, u.id, t1.id)) = 2
         /\ \A m \in medias : m.tweet_id # t2.id
         /\ \A l \in likes : l.tweet_id # t2.id

\* The sessions whose request was answered.
Done(op) ==
    { p \in Slots : sessions[p].pc = "done" /\ sessions[p].op = op }

\* The Unlike requests of the user with this key on this Tweet that answered
\* result:true.
UnlikesAnsweredTrue(key, id) ==
    { p \in Done("delete_likes_by_id") :
        /\ sessions[p].key = key /\ sessions[p].id = id
        /\ Ok(sessions[p].resp) }

\* C11 (as claimed): with Unlike requests of one user on one Tweet in flight
\* together, every Unlike that answers result:true has removed one Like row
\* of its own: the successful Unlike responses for (user, tweet) never
\* outnumber the Like rows (user, tweet) the Unlike requests removed.
C11_UnlikeAnswersTrueOnlyForARemovedRow ==
    \A key \in ValidKeys, id \in TweetIdArgs :
       Cardinality(UnlikesAnsweredTrue(key, id))
         <= Cardinality({ p \in UnlikesAnsweredTrue(key, id) :
                            sessions[p].rowcount = 1 })

\* C12: under every interleaving of Like, Unlike, Tweet creation and Tweet
\* deletion, a deletion committing between a Like's existence check and its
\* insert included, every Like row's tweet_id is the id of an existing Tweet.
C12_EveryLikeReferencesATweet ==
    \A l \in likes : \E t \in tweets : t.id = l.tweet_id

\* C12 witness: a Like passed its existence check, the Tweet was deleted, and
\* the Like's insert was then refused, while a Like row on another Tweet is
\* stored.
C12_Witness ==
    /\ \E p \in Done("likes_tweets") :
         /\ ~Ok(sessions[p].resp)
         /\ sessions[p].resp.error_message.kind = "IntegrityError"
         /\ \E q \in Done("delete_by_id") :
              sessions[q].id = sessions[p].id /\ sessions[q].rowcount = 1
    /\ likes # {}

\* The request read the profile of an existing User with a provisioned key.
IsProfile(entry) ==
    /\ entry.req.op \in {"read_user", "read_user_by_id"}
    /\ entry.req.key \in ValidKeys
    /\ IF entry.req.op = "read_user_by_id"
       THEN \E u \in users : u.id = entry.req.id
       ELSE TRUE

\* The id of the User whose profile the request read.
ProfileTarget(entry) ==
    IF entry.req.op = "read_user_by_id" THEN entry.req.id
    ELSE Caller(entry).id

\* list holds exactly the Users with an id in ids, each once, by id and name.
ListsExactly(list, ids) ==
    /\ { list[i].id : i \in DOMAIN list } = ids
    /\ Len(list) = Cardinality(ids)
    /\ \A i \in DOMAIN list :
         \E u \in users : u.id = list[i].id /\ u.name = list[i].name

\* C13: the profile of an existing User T, read by id or as "me", lists as
\* followers exactly the Users with at least one edge to T and as following
\* exactly the Users T has at least one edge to, each User once however many
\* edges there are; both variants return the same lists for the same User.
C13_ProfileListsEachFollowerOnce ==
    /\ IsProfile(last)
       => /\ Ok(last.resp)
          /\ last.resp.user.id = ProfileTarget(last)
          /\ ListsExactly(last.resp.user.followers,
               { f.follower_id :
                   f \in { e \in followers :
                             e.following_id = ProfileTarget(last) } })
          /\ ListsExactly(last.resp.user.following,
               { f.following_id :
                   f \in { e \in followers :
                             e.follower_id = ProfileTarget(last) } })
    /\ (/\ IsProfile(prev) /\ IsProfile(last)
        /\ prev.req.op # last.req.op
        /\ ProfileTarget(prev) = ProfileTarget(last))
       => /\ last.resp.user.followers = prev.resp.user.followers
          /\ last.resp.user.following = prev.resp.user.following

\* C13 witness: a User with two edges from the same follower read the own
\* profile as "me", and the other User then read it by id.
C13_Witness ==
    /\ IsProfile(prev) /\ prev.req.op = "read_user"
    /\ IsProfile(last) /\ last.req.op = "read_user_by_id"
    /\ ProfileTarget(prev) = ProfileTarget(last)
    /\ last.req.key # prev.req.key
    /\ Cardinality({ e \in followers :
                       /\ e.following_id = ProfileTarget(last)
                       /\ e.follower_id = Caller(last).id }) = 2
    /\ Len(last.resp.user.followers) = 1

====
